---- MODULE Spec2Model ----
(***************************************************************************)
(* The two FTP deployment scripts of hostgator/:                           *)
(*   deploy-staging.py        deploy(), upload_file(), upload_directory()  *)
(*   fix-mylzip-redirect.py   fix_mylzip_redirect()                        *)
(* One run of one script: connect, login, navigate, list, upload the local *)
(* tree, list, quit, exit.  The FTP server and the local file system are   *)
(* the environment: every FTP call and every local read may fail.          *)
(* A path is a sequence of names relative to the (local or remote) root.   *)
(***************************************************************************)
EXTENDS Integers, Sequences, FiniteSets, TLC

VARIABLES script, localRoot, tree, remote0, pc, rootExists, rdirs, rfiles,
          remaining, success_count, total_count, okItems, tried, sent, failed,
          ret, exitCode, quits, cwdCalls, mkdRootCalls

vars == <<script, localRoot, tree, remote0, pc, rootExists, rdirs, rfiles,
          remaining, success_count, total_count, okItems, tried, sent, failed,
          ret, exitCode, quits, cwdCalls, mkdRootCalls>>

\* Most failures the environment injects into one top-level item's upload.
MaxFaults == 1

----------------------------------------------------------------------------
\* The local file system: the entries a local tree is drawn from.

UFiles ==
  {<<"a.txt">>, <<"b.txt">>, <<"d", "f.txt">>, <<"d", "g.txt">>,
   <<"d", "e", "h.txt">>}

UDirs == {<<"d">>, <<"d", "e">>}

\* An entry that is neither a regular file nor a directory.
UOther == {<<"lnk">>}

Universe == UFiles \cup UDirs \cup UOther

Parent(p) == SubSeq(p, 1, Len(p) - 1)

IsUnder(p, q) == Len(q) <= Len(p) /\ SubSeq(p, 1, Len(q)) = q

\* A local tree: every entry's parent is a directory of the tree.
Trees ==
  {T \in SUBSET Universe :
     \A p \in T : Len(p) > 1 => (Parent(p) \in T /\ Parent(p) \in UDirs)}

isfile(p) == p \in tree /\ p \in UFiles

isdir(p) == p \in tree /\ p \in UDirs

\* The bytes of a local file, and the bytes an earlier deployment left in the
\* remote file of the same path: every file has its own, and the two differ.
Bytes(p) == <<"new", p>>

OldBytes(p) == <<"old", p>>

Children(dir) == {p \in tree : Len(p) = Len(dir) + 1 /\ Parent(p) = dir}

ChildNames(dir) == {p[Len(p)] : p \in Children(dir)}

DirsUnder(item) == {p \in tree \cap UDirs : IsUnder(p, item)}

Perms(S) ==
  {s \in [1..Cardinality(S) -> S] : \A i, j \in 1..Cardinality(S) :
                                        i # j => s[i] # s[j]}

\* The enumeration orders of the directories at and below a top-level item:
\* os.listdir promises no order, so each directory gets any.
Orders(item) ==
  {o \in [DirsUnder(item) ->
            UNION {Perms(ChildNames(d)) : d \in DirsUnder(item)}] :
     \A d \in DirsUnder(item) : o[d] \in Perms(ChildNames(d))}

\* os.listdir(dir): the names of dir's entries, in the order ord gives them.
listdir(dir, ord) == ord[dir]

\* The failures the environment may inject while one top-level item is
\* uploaded: a local file that cannot be opened, a refused STOR, a refused
\* MKD, a local directory that cannot be listed.
FaultUniverse(item) ==
  LET below == {p \in tree : IsUnder(p, item)}
  IN  {<<k, p>> : k \in {"open", "stor"}, p \in below \cap UFiles}
        \cup {<<k, p>> : k \in {"mkd", "listdir"}, p \in below \cap UDirs}

FaultSets(item) ==
  {F \in SUBSET FaultUniverse(item) : Cardinality(F) <= MaxFaults}

----------------------------------------------------------------------------
\* The remote store, as the FTP server answers.

\* The state an upload threads through: the remote directories and files,
\* the local entries whose upload was attempted, the STOR commands sent and
\* the calls that raised.
Store == [dirs |-> rdirs, files |-> rfiles, tried |-> tried, sent |-> sent,
          failed |-> failed]

RemoteParentExists(st, rp) == Len(rp) = 1 \/ Parent(rp) \in st.dirs

\* ftp.mkd(rp) succeeds: nothing of that name exists yet.
MkdAccepted(st, rp, F) ==
  /\ <<"mkd", rp>> \notin F
  /\ rp \notin st.dirs
  /\ rp \notin DOMAIN st.files
  /\ RemoteParentExists(st, rp)

\* ftp.storbinary('STOR rp') succeeds: a file of that name is overwritten.
StorAccepted(st, rp, F) ==
  /\ <<"stor", rp>> \notin F
  /\ rp \notin st.dirs
  /\ RemoteParentExists(st, rp)

Put(files, rp, b) ==
  [p \in DOMAIN files \cup {rp} |-> IF p = rp THEN b ELSE files[p]]

Raise(st, call, p) == [st EXCEPT !.failed = @ \cup {<<call, p>>}]

----------------------------------------------------------------------------
\* deploy-staging.py

\* upload_file with "return True" moved out of the try block.
upload_file_ReturnsTrue(st, local_file, remote_file, F) ==
  LET st1 == [st EXCEPT !.tried = @ \cup {local_file}]
      st2 == [st1 EXCEPT !.sent = @ \cup {remote_file}]
  IN  IF <<"open", local_file>> \in F
      THEN [st |-> Raise(st1, "open", local_file), ok |-> TRUE]
      ELSE IF StorAccepted(st2, remote_file, F)
      THEN [st |-> [st2 EXCEPT !.files = Put(@, remote_file, Bytes(local_file))],
            ok |-> TRUE]
      ELSE [st |-> Raise(st2, "stor", remote_file), ok |-> TRUE]

upload_file(st, local_file, remote_file, F) ==
  LET st1 == [st EXCEPT !.tried = @ \cup {local_file}]
      st2 == [st1 EXCEPT !.sent = @ \cup {remote_file}]
  IN  IF <<"open", local_file>> \in F
      THEN [st |-> Raise(st1, "open", local_file), ok |-> FALSE]
      ELSE IF StorAccepted(st2, remote_file, F)
      THEN [st |-> [st2 EXCEPT !.files = Put(@, remote_file, Bytes(local_file))],
            ok |-> TRUE]
      ELSE [st |-> Raise(st2, "stor", remote_file), ok |-> FALSE]

RECURSIVE upload_directory(_, _, _, _, _)
RECURSIVE upload_entries(_, _, _, _, _, _)

\* The loop of upload_directory over the entries still to visit.
upload_entries(st, local_dir, remote_dir, items, F, ord) ==
  IF items = <<>> THEN st
  ELSE LET item == Head(items)
           local_path == Append(local_dir, item)
           remote_path == Append(remote_dir, item)
           st1 == IF isfile(local_path)
                  THEN upload_file(st, local_path, remote_path, F).st
                  ELSE IF isdir(local_path)
                  THEN upload_directory(st, local_path, remote_path, F, ord).st
                  ELSE st
       IN  upload_entries(st1, local_dir, remote_dir, Tail(items), F, ord)

\* upload_directory returning whether everything below it succeeded too.
upload_directory_WorstChild(st, local_dir, remote_dir, F, ord) ==
  LET st1 == [st EXCEPT !.tried = @ \cup {local_dir}]
      st2 == [st1 EXCEPT !.dirs = @ \cup {remote_dir}]
      st3 == upload_entries(st2, local_dir, remote_dir,
                            listdir(local_dir, ord), F, ord)
  IN  IF ~MkdAccepted(st1, remote_dir, F)
      THEN [st |-> Raise(st1, "mkd", remote_dir), ok |-> FALSE]
      ELSE IF <<"listdir", local_dir>> \in F
      THEN [st |-> Raise(st2, "listdir", local_dir), ok |-> FALSE]
      ELSE [st |-> st3, ok |-> st3.failed = st2.failed]

upload_directory(st, local_dir, remote_dir, F, ord) ==
  LET st1 == [st EXCEPT !.tried = @ \cup {local_dir}]
      st2 == [st1 EXCEPT !.dirs = @ \cup {remote_dir}]
  IN  IF ~MkdAccepted(st1, remote_dir, F)
      THEN [st |-> Raise(st1, "mkd", remote_dir), ok |-> FALSE]
      ELSE IF <<"listdir", local_dir>> \in F
      THEN [st |-> Raise(st2, "listdir", local_dir), ok |-> FALSE]
      ELSE [st |-> upload_entries(st2, local_dir, remote_dir,
                                  listdir(local_dir, ord), F, ord),
            ok |-> TRUE]

\* One iteration of deploy()'s loop over the entries of the local root.
deploy_item(st, item, F, ord) ==
  IF isfile(<<item>>) THEN upload_file(st, <<item>>, <<item>>, F)
  ELSE IF isdir(<<item>>) THEN upload_directory(st, <<item>>, <<item>>, F, ord)
  ELSE [st |-> st, ok |-> FALSE]

----------------------------------------------------------------------------
\* fix-mylzip-redirect.py

\* The top-level file branch: the count is raised after storbinary returns.
fix_file(st, item, F) ==
  LET st1 == [st EXCEPT !.tried = @ \cup {<<item>>}]
      st2 == [st1 EXCEPT !.sent = @ \cup {<<item>>}]
  IN  IF <<"open", <<item>>>> \in F
      THEN [st |-> Raise(st1, "open", <<item>>), ok |-> FALSE]
      ELSE IF StorAccepted(st2, <<item>>, F)
      THEN [st |-> [st2 EXCEPT !.files = Put(@, <<item>>, Bytes(<<item>>))],
            ok |-> TRUE]
      ELSE [st |-> Raise(st2, "stor", <<item>>), ok |-> FALSE]

RECURSIVE fix_subitems(_, _, _, _)

\* The inner loop over a top-level directory's entries: files only, and the
\* first failure leaves the loop.
fix_subitems(st, item, subitems, F) ==
  IF subitems = <<>> THEN [st |-> st, ok |-> TRUE]
  ELSE LET subitem_path == <<item, Head(subitems)>>
           st1 == [st EXCEPT !.tried = @ \cup {subitem_path}]
           st2 == [st1 EXCEPT !.sent = @ \cup {subitem_path}]
       IN  IF ~isfile(subitem_path)
           THEN fix_subitems(st, item, Tail(subitems), F)
           ELSE IF <<"open", subitem_path>> \in F
           THEN [st |-> Raise(st1, "open", subitem_path), ok |-> FALSE]
           ELSE IF StorAccepted(st2, subitem_path, F)
           THEN fix_subitems(
                  [st2 EXCEPT !.files = Put(@, subitem_path, Bytes(subitem_path))],
                  item, Tail(subitems), F)
           ELSE [st |-> Raise(st2, "stor", subitem_path), ok |-> FALSE]

\* The top-level directory branch.
fix_directory(st, item, F, ord) ==
  LET st1 == [st EXCEPT !.tried = @ \cup {<<item>>}]
      st2 == [st1 EXCEPT !.dirs = @ \cup {<<item>>}]
  IN  IF ~MkdAccepted(st1, <<item>>, F)
      THEN [st |-> Raise(st1, "mkd", <<item>>), ok |-> FALSE]
      ELSE IF <<"listdir", <<item>>>> \in F
      THEN [st |-> Raise(st2, "listdir", <<item>>), ok |-> FALSE]
      ELSE fix_subitems(st2, item, listdir(<<item>>, ord), F)

\* One iteration of fix_mylzip_redirect()'s loop over the local root.
fix_item(st, item, F, ord) ==
  IF isfile(<<item>>) THEN fix_file(st, item, F)
  ELSE IF isdir(<<item>>) THEN fix_directory(st, item, F, ord)
  ELSE [st |-> st, ok |-> FALSE]

----------------------------------------------------------------------------
\* The run: deploy() or fix_mylzip_redirect(), then the __main__ block.

Scripts == {"deploy", "fix"}

TopLevel == {p[1] : p \in {q \in tree : Len(q) = 1}}

Init ==
  /\ script \in Scripts
  /\ localRoot \in {"dir", "missing", "unlistable"}
  /\ tree \in Trees
  /\ localRoot # "dir" => tree = {}
  /\ remote0 \in {"missing", "empty", "populated"}
  /\ remote0 = "populated" => tree # {}
  /\ rootExists = (remote0 # "missing")
  /\ rdirs = IF remote0 = "populated" THEN tree \cap UDirs ELSE {}
  /\ rfiles = IF remote0 = "populated"
              THEN [p \in tree \cap UFiles |-> OldBytes(p)]
              ELSE [p \in {} |-> OldBytes(p)]
  /\ pc = "connect"
  /\ remaining = {}
  /\ success_count = 0
  /\ total_count = 0
  /\ okItems = {}
  /\ tried = {}
  /\ sent = {}
  /\ failed = {}
  /\ ret = "none"
  /\ exitCode = -1
  /\ quits = 0
  /\ cwdCalls = 0
  /\ mkdRootCalls = 0

environment == <<script, localRoot, tree, remote0>>
remote == <<rootExists, rdirs, rfiles>>
counters == <<remaining, success_count, total_count, okItems, tried, sent>>
session == <<quits, cwdCalls, mkdRootCalls>>

\* A session-level call raised.
Raised(call) == failed' = failed \cup {<<call, <<>>>>}

\* The handler "except Exception as e: ... return False" of the outer try.
Except(call) ==
  /\ Raised(call)
  /\ ret' = "False"
  /\ pc' = "finally"

\* A step that calls ftp.<call>() and goes on at `next` when it returns.
Call(at, call, next) ==
  /\ pc = at
  /\ \E ok \in BOOLEAN :
       IF ok THEN pc' = next /\ UNCHANGED <<failed, ret>> ELSE Except(call)
  /\ UNCHANGED <<environment, remote, counters, session, exitCode>>

Connect == Call("connect", "connect", "login")

Login == Call("login", "login", "pwd1")

Pwd1 == Call("pwd1", "pwd", "cwd")

\* The first cwd with deploy() returning False as fix_mylzip_redirect() does.
Cwd_AlwaysFatal ==
  /\ pc = "cwd"
  /\ cwdCalls' = cwdCalls + 1
  /\ \E fault \in BOOLEAN :
       IF rootExists /\ ~fault
       THEN pc' = "pwd2" /\ UNCHANGED <<failed, ret>>
       ELSE /\ Raised("cwd")
            /\ pc' = "finally"
            /\ ret' = "False"
  /\ UNCHANGED <<environment, remote, counters, quits, mkdRootCalls, exitCode>>

\* ftp.cwd(remote_path) and what each script does when it raises.
Cwd ==
  /\ pc = "cwd"
  /\ cwdCalls' = cwdCalls + 1
  /\ \E fault \in BOOLEAN :
       IF rootExists /\ ~fault
       THEN pc' = "pwd2" /\ UNCHANGED <<failed, ret>>
       ELSE /\ Raised("cwd")
            /\ IF script = "deploy"
               THEN pc' = "mkroot" /\ UNCHANGED ret
               ELSE pc' = "finally" /\ ret' = "False"
  /\ UNCHANGED <<environment, remote, counters, quits, mkdRootCalls, exitCode>>

\* deploy(): ftp.mkd(remote_path) in the handler of the failed cwd.
MkdRoot ==
  /\ pc = "mkroot"
  /\ mkdRootCalls' = mkdRootCalls + 1
  /\ \E fault \in BOOLEAN :
       IF ~rootExists /\ ~fault
       THEN /\ rootExists' = TRUE
            /\ pc' = "cwd2"
            /\ UNCHANGED <<failed, ret>>
       ELSE Except("mkd_root") /\ UNCHANGED rootExists
  /\ UNCHANGED <<environment, rdirs, rfiles, counters, quits, cwdCalls, exitCode>>

\* deploy(): the second ftp.cwd(remote_path), in the same handler.
CwdRetry ==
  /\ pc = "cwd2"
  /\ cwdCalls' = cwdCalls + 1
  /\ \E fault \in BOOLEAN :
       IF rootExists /\ ~fault
       THEN pc' = "pwd2" /\ UNCHANGED <<failed, ret>>
       ELSE Except("cwd_retry")
  /\ UNCHANGED <<environment, remote, counters, quits, mkdRootCalls, exitCode>>

Pwd2 == Call("pwd2", "pwd", "list1")

\* The listing before the upload with fix_mylzip_redirect() going on after a
\* failure as deploy() does.
ListBefore_NeverFatal ==
  /\ pc = "list1"
  /\ \E ok \in BOOLEAN :
       IF ok THEN UNCHANGED failed ELSE Raised("nlst_before")
  /\ pc' = "local"
  /\ UNCHANGED <<environment, remote, counters, ret, session, exitCode>>

\* The listing before the upload.
ListBefore ==
  /\ pc = "list1"
  /\ \E ok \in BOOLEAN :
       IF ok THEN pc' = "local" /\ UNCHANGED <<failed, ret>>
       ELSE /\ Raised("nlst_before")
            /\ IF script = "deploy"
               THEN pc' = "local" /\ UNCHANGED ret
               ELSE pc' = "finally" /\ ret' = "False"
  /\ UNCHANGED <<environment, remote, counters, session, exitCode>>

\* The check that the local root exists, the two counters set to 0 and the
\* os.listdir(local_path) that starts the loop.
ListLocal ==
  /\ pc = "local"
  /\ IF localRoot = "missing"
     THEN /\ ret' = "False"
          /\ pc' = "finally"
          /\ UNCHANGED <<failed, remaining>>
     ELSE IF localRoot = "unlistable"
     THEN Except("listdir_root") /\ UNCHANGED remaining
     ELSE /\ remaining' = TopLevel
          /\ pc' = "loop"
          /\ UNCHANGED <<failed, ret>>
  /\ success_count' = 0
  /\ total_count' = 0
  /\ UNCHANGED <<environment, remote, okItems, tried, sent, session, exitCode>>

\* The iteration with total_count raised by every entry visited, nested
\* ones included.
Iterate_CountsNested(item, r) ==
  /\ remaining' = remaining \ {item}
  /\ total_count' = total_count + Cardinality(r.st.tried \ tried)
  /\ success_count' = IF r.ok THEN success_count + 1 ELSE success_count
  /\ okItems' = IF r.ok THEN okItems \cup {item} ELSE okItems
  /\ rdirs' = r.st.dirs
  /\ rfiles' = r.st.files
  /\ tried' = r.st.tried
  /\ sent' = r.st.sent
  /\ failed' = r.st.failed
  /\ UNCHANGED <<environment, rootExists, pc, ret, session, exitCode>>

\* One iteration of the top-level loop, given what the entry's upload did.
Iterate(item, r) ==
  /\ remaining' = remaining \ {item}
  /\ total_count' = total_count + 1
  /\ success_count' = IF r.ok THEN success_count + 1 ELSE success_count
  /\ okItems' = IF r.ok THEN okItems \cup {item} ELSE okItems
  /\ rdirs' = r.st.dirs
  /\ rfiles' = r.st.files
  /\ tried' = r.st.tried
  /\ sent' = r.st.sent
  /\ failed' = r.st.failed
  /\ UNCHANGED <<environment, rootExists, pc, ret, session, exitCode>>

DeployItem ==
  /\ pc = "loop"
  /\ script = "deploy"
  /\ \E item \in remaining : \E F \in FaultSets(<<item>>) :
       \E ord \in Orders(<<item>>) :
         Iterate(item, deploy_item(Store, item, F, ord))

FixItem ==
  /\ pc = "loop"
  /\ script = "fix"
  /\ \E item \in remaining : \E F \in FaultSets(<<item>>) :
       \E ord \in Orders(<<item>>) :
         Iterate(item, fix_item(Store, item, F, ord))

\* The loop is over: the summary line is printed.
LoopEnd ==
  /\ pc = "loop"
  /\ remaining = {}
  /\ pc' = "list2"
  /\ UNCHANGED <<environment, remote, counters, failed, ret, session, exitCode>>

\* The listing after the upload with its try block left out.
ListAfter_Fatal ==
  /\ pc = "list2"
  /\ \E ok \in BOOLEAN :
       IF ok THEN ret' = "True" /\ pc' = "finally" /\ UNCHANGED failed
       ELSE Except("nlst_after")
  /\ UNCHANGED <<environment, remote, counters, session, exitCode>>

\* The listing after the upload, then "return True".
ListAfter ==
  /\ pc = "list2"
  /\ \E ok \in BOOLEAN :
       IF ok THEN UNCHANGED failed ELSE Raised("nlst_after")
  /\ ret' = "True"
  /\ pc' = "finally"
  /\ UNCHANGED <<environment, remote, counters, session, exitCode>>

\* The finally block with "return False" in place of "pass".
Quit_FailureReturnsFalse ==
  /\ pc = "finally"
  /\ quits' = quits + 1
  /\ \E ok \in BOOLEAN :
       IF ok THEN UNCHANGED <<failed, ret>>
       ELSE Raised("quit") /\ ret' = "False"
  /\ pc' = "exit"
  /\ UNCHANGED <<environment, remote, counters, cwdCalls, mkdRootCalls,
                 exitCode>>

\* finally: try: ftp.quit() except: pass
Quit ==
  /\ pc = "finally"
  /\ quits' = quits + 1
  /\ \E ok \in BOOLEAN :
       IF ok THEN UNCHANGED failed ELSE Raised("quit")
  /\ pc' = "exit"
  /\ UNCHANGED <<environment, remote, counters, ret, cwdCalls, mkdRootCalls,
                 exitCode>>

\* __main__: sys.exit(0) if the function returned True, else sys.exit(1).
Exit ==
  /\ pc = "exit"
  /\ exitCode' = IF ret = "True" THEN 0 ELSE 1
  /\ pc' = "done"
  /\ UNCHANGED <<environment, remote, counters, failed, ret, session>>

Next ==
  \/ Connect
  \/ Login
  \/ Pwd1
  \/ Cwd
  \/ MkdRoot
  \/ CwdRetry
  \/ Pwd2
  \/ ListBefore
  \/ ListLocal
  \/ DeployItem
  \/ FixItem
  \/ LoopEnd
  \/ ListAfter
  \/ Quit
  \/ Exit

Spec == Init /\ [][Next]_vars

----------------------------------------------------------------------------
\* What the claims speak of.

Done == pc = "done"

LocalFiles == tree \cap UFiles

LocalDirs == tree \cap UDirs

\* A session-level call raised in this run.
CallFailed(call) == <<call, <<>>>> \in failed

\* A call on a local entry or its remote path raised in this run.
ItemFailed(call, p) == <<call, p>> \in failed

ItemFailures == {f \in failed : f[2] # <<>>}

\* The top-level loop ran to its end.
LoopFinished ==
  \/ pc = "list2"
  \/ pc \in {"finally", "exit", "done"} /\ ret = "True"

\* The remote root mirrors the local tree.
Mirrored ==
  /\ rdirs = LocalDirs
  /\ DOMAIN rfiles = LocalFiles
  /\ \A p \in LocalFiles : rfiles[p] = Bytes(p)

\* C1: against a remote root that is empty when the upload starts, and with
\* no FTP call and no local read failing, either script leaves the remote
\* root holding exactly the directories and files of the local tree, each
\* file with its local bytes, whatever the nesting depth.
C1_Claim ==
  (Done /\ ret = "True" /\ remote0 = "empty" /\ failed = {}
     /\ tree \subseteq UFiles \cup UDirs) => Mirrored

\* C1, deploy-staging.py alone: the recursive upload_directory does mirror
\* the tree.
C1_DeployMirrors ==
  script = "deploy" => C1_Claim

\* C2: a local directory whose remote directory already exists (mkd fails)
\* is still descended into: every file directly inside it is sent with STOR
\* in the same run and ends with the local bytes.
C2_Claim ==
  (Done /\ ret = "True" /\ remote0 = "populated") =>
    \A d \in LocalDirs :
      (d \in tried /\ ItemFailed("mkd", d)) =>
        \A p \in LocalFiles : Parent(p) = d => p \in sent

\* C3: a failure on one item is caught at that item: the loop still ends
\* normally and every sibling file of the failed item, at any depth, has
\* been attempted; with {a.txt, b.txt} and b.txt unreadable the run ends
\* with attempted = 2, succeeded = 1 and a.txt on the remote side.
C3_Claim ==
  (Done /\ ret = "True") =>
    /\ \A f \in ItemFailures : \A q \in LocalFiles :
         Parent(q) = Parent(f[2]) => q \in tried
    /\ (tree = {<<"a.txt">>, <<"b.txt">>}
          /\ ItemFailures = {<<"open", <<"b.txt">>>>}) =>
         /\ total_count = 2
         /\ success_count = 1
         /\ <<"a.txt">> \in DOMAIN rfiles
         /\ rfiles[<<"a.txt">>] = Bytes(<<"a.txt">>)

\* C3, deploy-staging.py alone: there the claim holds at every depth.
C3_DeployContinues == script = "deploy" => C3_Claim

\* C4 as stated: when the loop is over, total_count is the number of entries
\* visited, nested ones included.
C4_Claim == LoopFinished => total_count = Cardinality(tried)

\* C4 as amended: when the loop is over, total_count is the number of direct
\* entries of the local root; nested entries are visited but never counted.
C4_Thm == LoopFinished => total_count = Cardinality(TopLevel)

C4_Witness ==
  /\ Done
  /\ LoopFinished
  /\ total_count = 2
  /\ Cardinality(tried) > total_count

\* The upload call of a counted top-level entry completed: the STOR of a
\* file, the upload of a directory.
OwnUploadCompleted(item) ==
  IF isfile(<<item>>)
  THEN /\ <<item>> \in sent
       /\ ~ItemFailed("open", <<item>>)
       /\ ~ItemFailed("stor", <<item>>)
       /\ <<item>> \in DOMAIN rfiles
       /\ rfiles[<<item>>] = Bytes(<<item>>)
  ELSE /\ isdir(<<item>>)
       /\ <<item>> \in tried
       /\ ~ItemFailed("mkd", <<item>>)
       /\ ~ItemFailed("listdir", <<item>>)
       /\ script = "fix" =>
            \A f \in ItemFailures : Parent(f[2]) # <<item>>

C5_Inv ==
  /\ 0 <= success_count
  /\ success_count <= total_count
  /\ total_count <= Cardinality(TopLevel)
  /\ success_count = Cardinality(okItems)
  /\ \A item \in okItems : OwnUploadCompleted(item)

C5_Step ==
  (pc = "loop" /\ remaining' # remaining) =>
    /\ total_count' = total_count + 1
    /\ success_count' \in {success_count, success_count + 1}

\* C5: in either script 0 <= success_count <= total_count <= the number of
\* entries of the local root; an iteration of the top-level loop raises
\* total_count by exactly 1 and success_count by at most 1; and only an
\* entry whose own upload call completed is counted in success_count.
C5_Thm == [](pc \in {"loop", "list2", "finally", "exit", "done"} => C5_Inv)
            /\ [][C5_Step]_vars

C5_Witness ==
  /\ pc = "loop"
  /\ total_count = 3
  /\ success_count = 2
  /\ \E f \in ItemFailures : Len(f[2]) = 1

\* C6: every execution of either function calls ftp.quit() exactly once
\* before it returns, on the normal path, on every early return and after
\* any exception; and quit failing does not change what is returned.
C6_Thm ==
  /\ [](/\ pc \in {"exit", "done"} => quits = 1
        /\ pc \notin {"exit", "done"} => quits = 0
        /\ pc \in {"finally", "exit", "done"} => ret \in {"True", "False"}
        /\ Done => exitCode = (IF ret = "True" THEN 0 ELSE 1)
        /\ ~Done => ENABLED Next)
  /\ [][pc = "finally" => (ret' = ret /\ quits' = quits + 1 /\ pc' = "exit")]_vars

C6_Witness ==
  /\ Done
  /\ quits = 1
  /\ CallFailed("quit")
  /\ ret = "True"
  /\ exitCode = 0

\* A call of the connect, login and navigation phases raised and ended the
\* run, or the top-level upload (the listing of the local root) raised.
FatalRaised ==
  \/ CallFailed("connect")
  \/ CallFailed("login")
  \/ CallFailed("pwd")
  \/ CallFailed("mkd_root")
  \/ CallFailed("cwd_retry")
  \/ script = "fix" /\ CallFailed("cwd")
  \/ CallFailed("listdir_root")

\* C7 as stated: the exit code is 0 or 1, and it is 1 exactly when connect,
\* login, navigation or the top-level upload raised.
C7_Claim ==
  Done => /\ exitCode \in {0, 1}
          /\ exitCode = 1 <=> FatalRaised

\* C7 as amended: the exit code is 0 or 1; it is 1 exactly when connect,
\* login, pwd, navigation or the listing of the local root raised, or the
\* local root does not exist, or (fix-mylzip-redirect.py only) the listing
\* before the upload raised; it is 0 exactly when the function returned True.
C7_Thm ==
  Done => /\ exitCode \in {0, 1}
          /\ exitCode = 1 <=>
               \/ FatalRaised
               \/ localRoot = "missing"
               \/ script = "fix" /\ CallFailed("nlst_before")
          /\ exitCode = 0 <=> ret = "True"

C7_Witness ==
  /\ Done
  /\ exitCode = 1
  /\ localRoot = "missing"
  /\ failed = {}

\* C8 as stated: in both scripts a failed cwd into the remote root is
\* followed by one mkd of it and one more cwd.
C8_Claim ==
  (Done /\ CallFailed("cwd")) =>
    /\ mkdRootCalls = 1
    /\ ~CallFailed("mkd_root") => cwdCalls = 2

\* C8 as amended: in deploy-staging.py a failed cwd is followed by one mkd
\* and, when the mkd succeeds, exactly one more cwd; the run goes on to the
\* upload when that succeeds and returns False with nothing uploaded when
\* the mkd or the second cwd fails.  In fix-mylzip-redirect.py a failed cwd
\* is fatal at once: no mkd, no second cwd, False, nothing uploaded.
C8_Thm ==
  Done =>
    /\ ~CallFailed("cwd") => (mkdRootCalls = 0 /\ cwdCalls <= 1)
    /\ (script = "deploy" /\ CallFailed("cwd")) =>
         /\ mkdRootCalls = 1
         /\ cwdCalls = (IF CallFailed("mkd_root") THEN 1 ELSE 2)
         /\ (CallFailed("mkd_root") \/ CallFailed("cwd_retry")) =>
              (ret = "False" /\ tried = {} /\ sent = {})
         /\ (~FatalRaised /\ localRoot = "dir") =>
              (ret = "True" /\ total_count = Cardinality(TopLevel))
    /\ (script = "fix" /\ CallFailed("cwd")) =>
         /\ mkdRootCalls = 0
         /\ cwdCalls = 1
         /\ ret = "False"
         /\ tried = {}
         /\ sent = {}

C8_Witness ==
  /\ Done
  /\ script = "deploy"
  /\ remote0 = "missing"
  /\ CallFailed("cwd")
  /\ cwdCalls = 2
  /\ ret = "True"
  /\ sent # {}

\* C9 as stated: a failed listing, before or after the upload, is not fatal
\* in either script: with the local root there, the run still uploads every
\* top-level entry and returns True.
C9_Claim ==
  (Done /\ (CallFailed("nlst_before") \/ CallFailed("nlst_after"))
     /\ localRoot = "dir") =>
    (ret = "True" /\ total_count = Cardinality(TopLevel))

\* A listing step that changes nothing but the log of what raised.
C9_Frame(next) ==
  /\ pc' = next
  /\ UNCHANGED <<remote, counters, session>>

\* C9 as amended: the listing after the upload is non-fatal in both scripts
\* and the listing before it is non-fatal in deploy-staging.py: failed or
\* not, the step leaves the remote store, the counters and the result as
\* they would be, and the run returns True.  In fix-mylzip-redirect.py a
\* failed listing before the upload is fatal: False, nothing uploaded.
C9_Thm ==
  /\ [](Done =>
          /\ ((CallFailed("nlst_after")
                 \/ (script = "deploy" /\ CallFailed("nlst_before")))
                /\ localRoot = "dir") =>
               (ret = "True" /\ total_count = Cardinality(TopLevel))
          /\ (script = "fix" /\ CallFailed("nlst_before")) =>
               (ret = "False" /\ tried = {} /\ sent = {}))
  /\ [][(pc = "list1" /\ script = "deploy") =>
          (C9_Frame("local") /\ ret' = ret)]_vars
  /\ [][pc = "list2" => (C9_Frame("finally") /\ ret' = "True")]_vars

C9_Witness ==
  /\ Done
  /\ script = "deploy"
  /\ CallFailed("nlst_before")
  /\ CallFailed("nlst_after")
  /\ ret = "True"
  /\ success_count = 3

\* The top-level directories deploy()'s loop has been through.
VisitedTopDirs == {item \in TopLevel : isdir(<<item>>) /\ <<item>> \in tried}

\* C10 as stated: in deploy-staging.py a top-level directory is counted in
\* success_count exactly when its own mkd succeeded.
C10_Claim ==
  (script = "deploy" /\ pc \in {"loop", "list2", "finally", "exit", "done"}) =>
    \A item \in VisitedTopDirs :
      item \in okItems <=> ~ItemFailed("mkd", <<item>>)

\* C10 as amended: in deploy-staging.py a top-level directory is counted in
\* success_count exactly when its own mkd succeeded and its local directory
\* could be listed; failures of the files and subdirectories below it never
\* lower the count; and when its own mkd fails nothing below it is sent.
C10_Thm ==
  (script = "deploy" /\ pc \in {"loop", "list2", "finally", "exit", "done"}) =>
    \A item \in VisitedTopDirs :
      /\ item \in okItems <=>
           (~ItemFailed("mkd", <<item>>) /\ ~ItemFailed("listdir", <<item>>))
      /\ (ItemFailed("mkd", <<item>>) \/ ItemFailed("listdir", <<item>>)) =>
           \A p \in tree : (IsUnder(p, <<item>>) /\ p # <<item>>) =>
                             (p \notin tried /\ p \notin sent)

C10_Witness ==
  /\ Done
  /\ script = "deploy"
  /\ "d" \in okItems
  /\ ItemFailed("stor", <<"d", "f.txt">>)
  /\ <<"d", "g.txt">> \in DOMAIN rfiles

====
